---- MODULE Spec2Model ----
(***************************************************************************)
(* A model of archive/zip_archiver.go: the zipArchiver type, its four      *)
(* operations ArchiveContent, ArchiveFile, ArchiveDir and ArchiveMultiple, *)
(* and the open/close protocol they share.                                 *)
(*                                                                         *)
(* Strings are sequences of byte values, so that sort.Strings and the      *)
(* path functions are computed and not assumed.  The collaborators (the    *)
(* filesystem, os.File, zip.Writer, filepath.Walk) are modelled by their   *)
(* outcomes: every call that can fail does so nondeterministically.        *)
(***************************************************************************)
EXTENDS Naturals, Sequences, FiniteSets, TLC

(* ---------------------------------------------------------------------- *)
(* Bounds                                                                  *)
(* ---------------------------------------------------------------------- *)
\* operations run one after the other on one instance
MaxOps == 2
\* longest entry name handed to ArchiveContent
MaxNameLen == 2
\* most keys in the mapping handed to ArchiveMultiple
MaxKeys == 3
\* longest byte content
MaxContentLen == 1

Procs == {1, 2}

\* the bytes entry names are made of: 'a' and 'b'
NameChars == {97, 98}
\* the byte values contents are made of
ByteVals == {7}
\* the path separators a host can have: '/' and '\'
Separators == {47, 92}

RECURSIVE SeqsUpTo(_, _)
SeqsUpTo(S, n) ==
    IF n = 0 THEN {<<>>}
    ELSE LET shorter == SeqsUpTo(S, n - 1)
         IN  shorter \cup {Append(s, c) : s \in shorter, c \in S}

Names == SeqsUpTo(NameChars, MaxNameLen) \ {<<>>}
ShortNames == SeqsUpTo(NameChars, 1) \ {<<>>}
Contents == SeqsUpTo(ByteVals, MaxContentLen)

\* the contents a mapping gives its names: no bytes, or one
MapContents == SeqsUpTo(ByteVals, 1)

\* every mapping from at most k of the names to a content
MappingsOver(names, k) ==
    UNION {[K -> MapContents] : K \in {K \in SUBSET names : Cardinality(K) <= k}}
\* the names a mapping has for keys: a, aa, ab, b, ba, bb
KeyNames == SeqsUpTo(NameChars, 2) \ {<<>>}
Mappings == MappingsOver(KeyNames, MaxKeys)
SmallMappings == MappingsOver(ShortNames, 2)

(* ---------------------------------------------------------------------- *)
(* Strings and sort.Strings                                                *)
(* ---------------------------------------------------------------------- *)
\* Go's s < t on strings: bytewise lexicographic order
RECURSIVE StrLess(_, _)
StrLess(s, t) ==
    IF t = <<>> THEN FALSE
    ELSE IF s = <<>> THEN TRUE
    ELSE IF Head(s) < Head(t) THEN TRUE
    ELSE IF Head(t) < Head(s) THEN FALSE
    ELSE StrLess(Tail(s), Tail(t))

RECURSIVE Insert(_, _)
Insert(k, sorted) ==
    IF sorted = <<>> THEN <<k>>
    ELSE IF StrLess(Head(sorted), k) THEN <<Head(sorted)>> \o Insert(k, Tail(sorted))
    ELSE <<k>> \o sorted

RECURSIVE InsertionSort(_)
InsertionSort(ks) ==
    IF ks = <<>> THEN <<>> ELSE Insert(Head(ks), InsertionSort(Tail(ks)))

\* the keys left as the range loop produced them
SortStringsSkipped(ks) == ks
\* sort.Strings(keys)
SortStrings(ks) == InsertionSort(ks)

\* ks is in strictly ascending order
Ascending(ks) == \A i, j \in 1..Len(ks) : i < j => StrLess(ks[i], ks[j])

\* the orders in which `for k := range content` can fill keys
RangeOrders(content) ==
    LET K == DOMAIN content
        n == Cardinality(K)
    IN  {ks \in [1..n -> K] : \A i, j \in 1..n : i # j => ks[i] # ks[j]}

(* ---------------------------------------------------------------------- *)
(* The filesystem                                                          *)
(* ---------------------------------------------------------------------- *)
\* A path is the sequence of its components below the working directory;
\* <<>> is the working directory itself.
Comps == {<<97>>, <<98>>}
Paths == {<<>>} \cup {<<c>> : c \in Comps} \cup {<<c, d>> : c \in Comps, d \in Comps}

Parent(path) == SubSeq(path, 1, Len(path) - 1)

\* A tree gives every path that exists its kind; a path exists only inside
\* an existing directory, and the working directory exists.
IsTree(t) ==
    /\ <<>> \in DOMAIN t /\ t[<<>>] = "dir"
    /\ \A q \in DOMAIN t : q # <<>> => Parent(q) \in DOMAIN t /\ t[Parent(q)] = "dir"
Trees ==
    {t \in UNION {[P -> {"file", "dir"}] : P \in SUBSET Paths} : IsTree(t)}

\* a/ is a directory holding the file a/b and the empty directory a/a; b is a file
SampleTree ==
    (<<>> :> "dir") @@ (<<<<97>>>> :> "dir") @@ (<<<<98>>>> :> "file")
    @@ (<<<<97>>, <<98>>>> :> "file") @@ (<<<<97>>, <<97>>>> :> "dir")

Exists(t, path) == path \in DOMAIN t
IsDir(t, path) == Exists(t, path) /\ t[path] = "dir"
IsFile(t, path) == Exists(t, path) /\ t[path] = "file"

RECURSIVE JoinWith(_, _)
JoinWith(comps, s) ==
    IF comps = <<>> THEN <<>>
    ELSE IF Len(comps) = 1 THEN Head(comps)
    ELSE Head(comps) \o <<s>> \o JoinWith(Tail(comps), s)

\* the bytes of a file: its own path, so that no two files hold the same bytes
FileBytes(path) == JoinWith(path, 47)

IsPrefix(s, t) == Len(s) <= Len(t) /\ SubSeq(t, 1, Len(s)) = s

\* the names os.ReadDir gives for a directory, sorted as filepath.Walk sorts them
Children(t, dir) ==
    LET kids == {q \in DOMAIN t : q # <<>> /\ Parent(q) = dir}
        last == {q[Len(q)] : q \in kids}
        names == InsertionSort(CHOOSE ks \in [1..Cardinality(last) -> last] :
                                \A i, j \in 1..Cardinality(last) : i # j => ks[i] # ks[j])
    IN  [i \in 1..Len(names) |-> Append(dir, names[i])]

\* the entry is named by the file's base name alone
RelBaseOnly(indirname, path, s) == path[Len(path)]
\* filepath.Rel(indirname, path) for a path below indirname, on a host whose
\* separator is s
Rel(indirname, path, s) == JoinWith(SubSeq(path, Len(indirname) + 1, Len(path)), s)

\* the whole path as it was given
BaseNameWholePath(path) == JoinWith(path, 47)
\* os.FileInfo.Name(): the base name
BaseName(path) == IF path = <<>> THEN <<46>> ELSE path[Len(path)]

(* ---------------------------------------------------------------------- *)
(* State                                                                   *)
(* ---------------------------------------------------------------------- *)
VARIABLES
    fs,            \* the source tree: path -> "file" | "dir"
    sep,           \* the host's path separator
    target,        \* the file at a.filepath
    a_filewriter,  \* a.filewriter: 0 is nil, else the id of an os.File
    a_writer,      \* a.writer: 0 is nil, else the id of a zip.Writer
    io,            \* the os.File and zip.Writer objects that exist
    nops,          \* operations started so far
    call           \* per caller: the operation it is in and its locals

vars == <<fs, sep, target, a_filewriter, a_writer, io, nops, call>>

NoTarget == [exists |-> FALSE, entries |-> <<>>, finalized |-> FALSE]
\* an archive some earlier program left at a.filepath
OldArchive ==
    [exists |-> TRUE,
     entries |-> <<[name |-> <<97>>, content |-> <<7>>, written |-> TRUE, op |-> 0]>>,
     finalized |-> TRUE]

IdleCall ==
    [pc |-> "idle", op |-> "none", id |-> 0, name |-> <<>>, path |-> <<>>,
     content |-> <<>>, mapping |-> <<>>, keys |-> <<>>, i |-> 0, todo |-> <<>>,
     f |-> 0, w |-> 0, ret |-> "none", openCalled |-> FALSE, opened |-> FALSE,
     walkErr |-> FALSE, shuffled |-> FALSE, tgt0 |-> NoTarget]

\* newZipArchiver: only filepath is set
InitWith(trees) ==
    /\ fs \in trees
    /\ sep \in Separators
    /\ target \in {NoTarget, OldArchive}
    /\ a_filewriter = 0
    /\ a_writer = 0
    /\ io = [files |-> {}, broken |-> {}, finTried |-> {}, sinkTried |-> {},
             overlapped |-> FALSE]
    /\ nops = 0
    /\ call = [p \in Procs |-> IdleCall]

Init == InitWith({SampleTree})

(* ---------------------------------------------------------------------- *)
(* Calls                                                                   *)
(* ---------------------------------------------------------------------- *)
\* callers serialize their calls on the instance; at most limit calls are made
CanCall(p, limit) ==
    /\ nops < limit
    /\ \A q \in Procs : call[q].pc = "idle"

\* every operation opens the target at once
FirstStepOpen(opname) == "open"
\* the first statement of each operation: ArchiveFile and ArchiveDir validate
\* their path, ArchiveContent and ArchiveMultiple open the target
FirstStep(opname) ==
    CASE opname = "file" -> "f_valid"
      [] opname = "dir" -> "d_valid"
      [] OTHER -> "open"

Begin(p, opname) ==
    [IdleCall EXCEPT !.pc = FirstStep(opname), !.op = opname, !.id = nops + 1,
                     !.tgt0 = target]

StartContent(p, limit) ==
    /\ CanCall(p, limit)
    /\ \E content \in Contents, infilename \in Names :
          call' = [call EXCEPT ![p] =
                      [Begin(p, "content") EXCEPT
                          !.content = content, !.name = infilename]]
    /\ nops' = nops + 1
    /\ UNCHANGED <<fs, sep, target, a_filewriter, a_writer, io>>

StartFile(p, limit) ==
    /\ CanCall(p, limit)
    /\ \E infilename \in Paths :
          call' = [call EXCEPT ![p] =
                      [Begin(p, "file") EXCEPT !.path = infilename]]
    /\ nops' = nops + 1
    /\ UNCHANGED <<fs, sep, target, a_filewriter, a_writer, io>>

StartDir(p, limit) ==
    /\ CanCall(p, limit)
    /\ \E indirname \in Paths :
          call' = [call EXCEPT ![p] =
                      [Begin(p, "dir") EXCEPT !.path = indirname]]
    /\ nops' = nops + 1
    /\ UNCHANGED <<fs, sep, target, a_filewriter, a_writer, io>>

StartMultiple(p, maps, limit) ==
    /\ CanCall(p, limit)
    /\ \E content \in maps :
          call' = [call EXCEPT ![p] =
                      [Begin(p, "multiple") EXCEPT !.mapping = content]]
    /\ nops' = nops + 1
    /\ UNCHANGED <<fs, sep, target, a_filewriter, a_writer, io>>

\* the operation has returned ret to its caller
Return(p) ==
    /\ call[p].pc = "done"
    /\ call' = [call EXCEPT ![p] = IdleCall]
    /\ UNCHANGED <<fs, sep, target, a_filewriter, a_writer, io, nops>>

(* ---------------------------------------------------------------------- *)
(* zip.Writer and os.File                                                  *)
(* ---------------------------------------------------------------------- *)
\* the file opened for appending: what it held stays
OpenedForAppend(t) == [t EXCEPT !.exists = TRUE, !.finalized = FALSE]
\* os.Create(a.filepath) succeeded on a target that was t: the file exists and
\* is empty
Truncate(t) == [exists |-> TRUE, entries |-> <<>>, finalized |-> FALSE]

\* Create / CreateHeader succeeded on writer w: a new entry, no bytes yet
WithEntry(t, entryname, w) ==
    [t EXCEPT !.entries =
        Append(@, [name |-> entryname, content |-> <<>>, written |-> FALSE, op |-> w])]

\* the entry is closed without the bytes
WithContentDropped(t, f, content) ==
    IF f \in 1..Len(t.entries)
    THEN [t EXCEPT !.entries[f].written = TRUE]
    ELSE t
\* f.Write(content) succeeded on entry f
WithContent(t, f, content) ==
    IF f \in 1..Len(t.entries)
    THEN [t EXCEPT !.entries[f].content = content, !.entries[f].written = TRUE]
    ELSE t

\* the entry stream f of writer w still is an entry of the target: no later
\* os.Create has truncated the file under it
StreamLive(t, f, w) == f \in 1..Len(t.entries) /\ t.entries[f].op = w

\* where an operation goes once open has succeeded
Body(opname) ==
    CASE opname = "content" -> "c_create"
      [] opname = "file" -> "f_create"
      [] opname = "dir" -> "d_visit"
      [] opname = "multiple" -> "m_keys"

(* ---------------------------------------------------------------------- *)
(* open and close                                                          *)
(* ---------------------------------------------------------------------- *)
\* a.open(), and the `defer a.close()` after it
Open(p) ==
    /\ call[p].pc = "open"
    /\ \/ \* os.Create fails: the operation returns err, nothing is deferred
          /\ call' = [call EXCEPT ![p].pc = "done", ![p].ret = "open",
                                  ![p].openCalled = TRUE]
          /\ UNCHANGED <<target, a_filewriter, a_writer, io>>
       \/ /\ target' = Truncate(target)
          /\ a_filewriter' = call[p].id
          /\ a_writer' = call[p].id
          /\ io' = [io EXCEPT !.files = @ \cup {call[p].id}]
          /\ call' = [call EXCEPT ![p].pc = Body(call[p].op),
                                  ![p].openCalled = TRUE, ![p].opened = TRUE,
                                  ![p].todo = <<call[p].path>>]
    /\ UNCHANGED <<fs, sep, nops>>

\* the body returns and the deferred close is not run
LeaveSkippingClose(c, err) == [c EXCEPT !.pc = "done", !.ret = err]
\* the body is over with result err: the deferred a.close() runs next
Leave(c, err) == [c EXCEPT !.pc = "close_w", !.ret = err]
\* a return before `defer a.close()` is reached: nothing is deferred
ReturnEarly(c, err) == [c EXCEPT !.pc = "done", !.ret = err]

\* close() errors replace a nil result
AfterCloseSurfaced(ret, closeErr) == IF ret = "ok" /\ closeErr THEN "close" ELSE ret
\* what the operation returns once close has run: close() has no result and
\* its errors are dropped
AfterClose(ret, closeErr) == ret

\* close() gives up when finalizing fails
AfterFinalizeStopOnError(fails) == IF fails THEN "done" ELSE "close_f"
\* close() goes on to a.filewriter whether or not a.writer.Close() failed
AfterFinalize(fails) == "close_f"

\* a.close(), first half: a.writer.Close()
CloseWriter(p) ==
    /\ call[p].pc = "close_w"
    /\ IF a_writer # 0
       THEN \E fails \in BOOLEAN :
               /\ fails \/ a_writer \notin io.broken
               /\ target' = IF fails THEN target ELSE [target EXCEPT !.finalized = TRUE]
               /\ io' = [io EXCEPT !.finTried = @ \cup {a_writer},
                                   !.broken = @ \ {a_writer}]
               /\ a_writer' = 0
               /\ call' = [call EXCEPT ![p].pc = AfterFinalize(fails),
                                       ![p].ret = AfterClose(@, fails)]
       ELSE /\ call' = [call EXCEPT ![p].pc = "close_f"]
            /\ UNCHANGED <<target, io, a_writer>>
    /\ UNCHANGED <<fs, sep, a_filewriter, nops>>

\* a.close(), second half: a.filewriter.Close()
CloseFile(p) ==
    /\ call[p].pc = "close_f"
    /\ IF a_filewriter # 0
       THEN \E fails \in BOOLEAN :
               /\ io' = [io EXCEPT !.sinkTried = @ \cup {a_filewriter},
                                   !.files = @ \ {a_filewriter}]
               /\ a_filewriter' = 0
               /\ call' = [call EXCEPT ![p].pc = "done",
                                       ![p].ret = AfterClose(@, fails)]
       ELSE /\ call' = [call EXCEPT ![p].pc = "done"]
            /\ UNCHANGED <<io, a_filewriter>>
    /\ UNCHANGED <<fs, sep, target, a_writer, nops>>

(* ---------------------------------------------------------------------- *)
(* Writing one entry                                                       *)
(* ---------------------------------------------------------------------- *)
\* as CreateEntry below, but a rejected header only skips the entry
CreateEntryTolerant(p, entryname, next) ==
    IF a_writer = 0
    THEN /\ call' = [call EXCEPT ![p] = Leave(@, "panic")]
         /\ UNCHANGED <<target, io>>
    ELSE \/ /\ target' = WithEntry(target, entryname, a_writer)
            /\ call' = [call EXCEPT ![p].pc = next, ![p].f = Len(target.entries) + 1,
                                    ![p].w = a_writer]
            /\ a_writer \notin io.broken
            /\ UNCHANGED io
         \/ /\ call' = [call EXCEPT ![p].i = @ + 1]
            /\ UNCHANGED <<target, io>>
         \/ /\ call' = [call EXCEPT ![p] = Leave(@, "create")]
            /\ io' = [io EXCEPT !.broken = @ \cup {a_writer}]
            /\ UNCHANGED target

\* a.writer.Create(name) or a.writer.CreateHeader(fh): on success control
\* goes to `next` with f the new entry; on failure the body returns the error
CreateEntry(p, entryname, next) ==
    IF a_writer = 0
    THEN \* a.writer is nil: the call panics, the deferred close still runs
         /\ call' = [call EXCEPT ![p] = Leave(@, "panic")]
         /\ UNCHANGED <<target, io>>
    ELSE \/ /\ target' = WithEntry(target, entryname, a_writer)
            /\ call' = [call EXCEPT ![p].pc = next, ![p].f = Len(target.entries) + 1,
                                    ![p].w = a_writer]
            /\ a_writer \notin io.broken
            /\ UNCHANGED io
         \/ \* the header is rejected
            /\ call' = [call EXCEPT ![p] = Leave(@, "create")]
            /\ UNCHANGED <<target, io>>
         \/ \* the sink fails: every later write to it fails too
            /\ call' = [call EXCEPT ![p] = Leave(@, "create")]
            /\ io' = [io EXCEPT !.broken = @ \cup {a_writer}]
            /\ UNCHANGED target

\* f.Write(content): on success control goes on as `after` says
WriteEntry(p, content, after) ==
    \/ /\ target' = IF StreamLive(target, call[p].f, call[p].w)
                     THEN WithContent(target, call[p].f, content)
                     ELSE target
       /\ call' = [call EXCEPT ![p] = after]
       /\ UNCHANGED io
    \/ /\ call' = [call EXCEPT ![p] = Leave(@, "write")]
       /\ io' = [io EXCEPT !.broken = @ \cup {call[p].w}]
       /\ UNCHANGED target

(* ---------------------------------------------------------------------- *)
(* ArchiveContent                                                          *)
(* ---------------------------------------------------------------------- *)
ContentCreate(p) ==
    /\ call[p].pc = "c_create"
    /\ CreateEntry(p, call[p].name, "c_write")
    /\ UNCHANGED <<fs, sep, a_filewriter, a_writer, nops>>

ContentWrite(p) ==
    /\ call[p].pc = "c_write"
    /\ WriteEntry(p, call[p].content, Leave(call[p], "ok"))
    /\ UNCHANGED <<fs, sep, a_filewriter, a_writer, nops>>

(* ---------------------------------------------------------------------- *)
(* ArchiveFile                                                             *)
(* ---------------------------------------------------------------------- *)
\* assertValidFile(infilename): the path is an existing regular file
ValidFile(t, path) == IsFile(t, path)
\* assertValidDir(indirname): the path is an existing directory
ValidDir(t, path) == IsDir(t, path)

FileValidate(p) ==
    /\ call[p].pc = "f_valid"
    /\ call' = [call EXCEPT ![p] =
                   IF ValidFile(fs, call[p].path)
                   THEN [@ EXCEPT !.pc = "f_read"]
                   ELSE ReturnEarly(@, "validation")]
    /\ UNCHANGED <<fs, sep, target, a_filewriter, a_writer, io, nops>>

\* the read error is dropped and the operation goes on with no bytes
ReadResultIgnoringError(c, ok) ==
    IF ok THEN [c EXCEPT !.pc = "open", !.content = FileBytes(c.path)]
    ELSE [c EXCEPT !.pc = "open"]
\* content, err := ioutil.ReadFile(infilename); if err != nil { return err }
ReadResult(c, ok) ==
    IF ok THEN [c EXCEPT !.pc = "open", !.content = FileBytes(c.path)]
    ELSE ReturnEarly(c, "read")

\* ioutil.ReadFile(infilename), before open
FileRead(p) ==
    /\ call[p].pc = "f_read"
    /\ \E ok \in BOOLEAN :
          /\ ok => IsFile(fs, call[p].path)
          /\ call' = [call EXCEPT ![p] = ReadResult(@, ok)]
    /\ UNCHANGED <<fs, sep, target, a_filewriter, a_writer, io, nops>>

\* zip.FileInfoHeader(fi), fh.Name = fi.Name(), a.writer.CreateHeader(fh)
FileCreate(p) ==
    /\ call[p].pc = "f_create"
    /\ \/ /\ call' = [call EXCEPT ![p] = Leave(@, "header")]
          /\ UNCHANGED <<target, io>>
       \/ CreateEntry(p, BaseName(call[p].path), "f_write")
    /\ UNCHANGED <<fs, sep, a_filewriter, a_writer, nops>>

FileWrite(p) ==
    /\ call[p].pc = "f_write"
    /\ WriteEntry(p, call[p].content, Leave(call[p], "ok"))
    /\ UNCHANGED <<fs, sep, a_filewriter, a_writer, nops>>

(* ---------------------------------------------------------------------- *)
(* ArchiveDir                                                              *)
(* ---------------------------------------------------------------------- *)
DirValidate(p) ==
    /\ call[p].pc = "d_valid"
    /\ call' = [call EXCEPT ![p] =
                   IF ValidDir(fs, call[p].path)
                   THEN [@ EXCEPT !.pc = "open"]
                   ELSE ReturnEarly(@, "validation")]
    /\ UNCHANGED <<fs, sep, target, a_filewriter, a_writer, io, nops>>

\* filepath.Walk reaches the next path (todo holds the paths still to visit,
\* in walk order) and calls the callback on it, up to CreateHeader
WalkVisit(p) ==
    /\ call[p].pc = "d_visit"
    /\ IF call[p].todo = <<>>
       THEN \* Walk returns nil
            /\ call' = [call EXCEPT ![p] = Leave(@, "ok")]
            /\ UNCHANGED <<target, io>>
       ELSE LET path == Head(call[p].todo) IN
            \/ \* Lstat of a listed child fails: callback(path, nil, err), and
               \* info.IsDir() on the nil info panics before err is looked at
               /\ path # call[p].path \/ ~Exists(fs, path)
               /\ call' = [call EXCEPT ![p] = Leave([@ EXCEPT !.walkErr = TRUE], "panic")]
               /\ UNCHANGED <<target, io>>
            \/ \* the directory cannot be listed: callback(path, info, err)
               \* returns nil because info.IsDir(), and Walk skips the directory
               /\ IsDir(fs, path)
               /\ call' = [call EXCEPT ![p].todo = Tail(@), ![p].walkErr = TRUE]
               /\ UNCHANGED <<target, io>>
            \/ \* a directory: the callback returns nil, Walk descends
               /\ IsDir(fs, path)
               /\ call' = [call EXCEPT ![p].todo = Children(fs, path) \o Tail(@)]
               /\ UNCHANGED <<target, io>>
            \/ \* a file: zip.FileInfoHeader(info) fails
               /\ IsFile(fs, path)
               /\ call' = [call EXCEPT ![p] = Leave(@, "header")]
               /\ UNCHANGED <<target, io>>
            \/ \* a file: fh.Name = relname, a.writer.CreateHeader(fh)
               /\ IsFile(fs, path)
               /\ CreateEntry(p, Rel(call[p].path, path, sep), "d_write")
    /\ UNCHANGED <<fs, sep, a_filewriter, a_writer, nops>>

\* the rest of the callback: ioutil.ReadFile(path), f.Write(content)
WalkWrite(p) ==
    /\ call[p].pc = "d_write"
    /\ LET path == Head(call[p].todo) IN
       \/ /\ call' = [call EXCEPT ![p] = Leave(@, "read")]
          /\ UNCHANGED <<target, io>>
       \/ WriteEntry(p, FileBytes(path),
                     [call[p] EXCEPT !.pc = "d_visit", !.todo = Tail(@)])
    /\ UNCHANGED <<fs, sep, a_filewriter, a_writer, nops>>

(* ---------------------------------------------------------------------- *)
(* ArchiveMultiple                                                         *)
(* ---------------------------------------------------------------------- *)
\* keys collected by ranging over the map, in whatever order, then sorted
MultipleKeys(p) ==
    /\ call[p].pc = "m_keys"
    /\ \E ks \in RangeOrders(call[p].mapping) :
          call' = [call EXCEPT ![p].pc = "m_create", ![p].i = 1,
                                  ![p].keys = SortStrings(ks),
                                  ![p].shuffled = ~Ascending(ks)]
    /\ UNCHANGED <<fs, sep, target, a_filewriter, a_writer, io, nops>>

\* the loop head and a.writer.Create(filename)
MultipleCreate(p) ==
    /\ call[p].pc = "m_create"
    /\ IF call[p].i > Len(call[p].keys)
       THEN /\ call' = [call EXCEPT ![p] = Leave(@, "ok")]
            /\ UNCHANGED <<target, io>>
       ELSE CreateEntry(p, call[p].keys[call[p].i], "m_write")
    /\ UNCHANGED <<fs, sep, a_filewriter, a_writer, nops>>

\* f.Write(content[filename])
MultipleWrite(p) ==
    /\ call[p].pc = "m_write"
    /\ WriteEntry(p, call[p].mapping[call[p].keys[call[p].i]],
                  [call[p] EXCEPT !.pc = "m_create", !.i = @ + 1])
    /\ UNCHANGED <<fs, sep, a_filewriter, a_writer, nops>>

(* ---------------------------------------------------------------------- *)
(* Specifications                                                          *)
(* ---------------------------------------------------------------------- *)
\* any of the four operations, MaxOps calls one after the other
Next ==
    \E p \in Procs :
        \/ StartContent(p, MaxOps)
        \/ StartFile(p, MaxOps)
        \/ StartDir(p, MaxOps)
        \/ StartMultiple(p, SmallMappings, MaxOps)
        \/ Open(p) \/ CloseWriter(p) \/ CloseFile(p) \/ Return(p)
        \/ ContentCreate(p) \/ ContentWrite(p)
        \/ FileValidate(p) \/ FileRead(p) \/ FileCreate(p) \/ FileWrite(p)
        \/ DirValidate(p) \/ WalkVisit(p) \/ WalkWrite(p)
        \/ MultipleKeys(p) \/ MultipleCreate(p) \/ MultipleWrite(p)

Spec == Init /\ [][Next]_vars

\* one caller makes one ArchiveMultiple call, on any mapping, with no archive
\* at the target yet
NextMultiple ==
    \E p \in {1} :
        \/ StartMultiple(p, Mappings, 1)
        \/ Open(p) \/ CloseWriter(p) \/ CloseFile(p) \/ Return(p)
        \/ MultipleKeys(p) \/ MultipleCreate(p) \/ MultipleWrite(p)

InitMultiple == Init /\ target = NoTarget
SpecMultiple == InitMultiple /\ [][NextMultiple]_vars

\* one ArchiveDir call on every path of every tree
NextDir ==
    \E p \in Procs :
        \/ StartDir(p, 1)
        \/ Open(p) \/ CloseWriter(p) \/ CloseFile(p) \/ Return(p)
        \/ DirValidate(p) \/ WalkVisit(p) \/ WalkWrite(p)

InitDir == InitWith(Trees)
SpecDir == InitDir /\ [][NextDir]_vars

\* the calls two callers make at the same time: ArchiveContent of one byte
\* under a one-byte name, or ArchiveMultiple of one such name and byte
UnserializedCalls ==
    {[op |-> "content", name |-> n, content |-> <<7>>, mapping |-> <<>>] : n \in ShortNames}
    \cup {[op |-> "multiple", name |-> <<>>, content |-> <<>>, mapping |-> (n :> <<7>>)] :
              n \in ShortNames}

\* a caller invokes an operation whatever the other caller is doing: the
\* instance has no lock.  Two calls are made in all.  overlapped records that some call began while
\* another was running.
StartUnserialized(p) ==
    /\ nops < 2
    /\ call[p].pc = "idle"
    /\ \E c \in UnserializedCalls :
          call' = [call EXCEPT ![p] =
                      [Begin(p, c.op) EXCEPT !.name = c.name, !.content = c.content,
                                             !.mapping = c.mapping]]
    /\ nops' = nops + 1
    /\ io' = [io EXCEPT !.overlapped =
                 @ \/ \E q \in Procs \ {p} : call[q].pc \notin {"idle", "done"}]
    /\ UNCHANGED <<fs, sep, target, a_filewriter, a_writer>>

\* two callers use the instance with no serialization
NextUnserialized ==
    \E p \in Procs :
        \/ StartUnserialized(p)
        \/ Open(p) \/ CloseWriter(p) \/ CloseFile(p) \/ Return(p)
        \/ ContentCreate(p) \/ ContentWrite(p)
        \/ MultipleKeys(p) \/ MultipleCreate(p) \/ MultipleWrite(p)

InitUnserialized == Init /\ target = NoTarget /\ sep = 47
SpecUnserialized == InitUnserialized /\ [][NextUnserialized]_vars

(* ---------------------------------------------------------------------- *)
(* Properties                                                              *)
(* ---------------------------------------------------------------------- *)
\* what a reader of the container sees of an entry
EntryData(e) == [name |-> e.name, content |-> e.content]
Written(t) == [i \in 1..Len(t.entries) |-> EntryData(t.entries[i])]
AllWritten(t) == \A i \in 1..Len(t.entries) : t.entries[i].written

\* the names of a mapping in ascending order
SortedNames(m) == CHOOSE ks \in RangeOrders(m) : Ascending(ks)

\* the entries a complete run of ArchiveMultiple's loop writes for keys
LoopOutput(keys, m) == [i \in 1..Len(keys) |-> [name |-> keys[i], content |-> m[keys[i]]]]

Closing == {"close_w", "close_f"}

\* C1: ArchiveMultiple creates the entries in strictly ascending
\* lexicographic order of their names, whatever order the map was ranged in:
\* at every moment of the call the names in the container ascend, no name
\* smaller than a created one has been left out, every written entry holds
\* the bytes the mapping has for its name, and a successful call has written
\* every name.
C1_AscendingOrder ==
    \A p \in Procs :
        (call[p].op = "multiple" /\ call[p].opened) =>
            LET es == target.entries
                m == call[p].mapping
            IN  /\ \A i, j \in 1..Len(es) : i < j => StrLess(es[i].name, es[j].name)
                /\ \A i \in 1..Len(es) :
                      /\ es[i].name \in DOMAIN m
                      /\ es[i].written => es[i].content = m[es[i].name]
                      /\ \A k \in DOMAIN m :
                            StrLess(k, es[i].name) => \E j \in 1..Len(es) : es[j].name = k
                /\ (call[p].pc = "done" /\ call[p].ret = "ok") =>
                      /\ {es[i].name : i \in 1..Len(es)} = DOMAIN m
                      /\ AllWritten(target)

\* a call that ranged the three keys out of order has written them all
C1_Witness ==
    \E p \in Procs :
        /\ call[p].op = "multiple" /\ call[p].pc = "done" /\ call[p].ret = "ok"
        /\ call[p].shuffled
        /\ Len(target.entries) = 3
        /\ target.entries[1].content # target.entries[2].content

\* C2: once open has succeeded, when the operation returns (success, error
\* or panic) finalizing the writer and closing the sink have both been
\* attempted and a.writer and a.filewriter are nil; between operations the
\* instance holds no handle and no os.File is open.
C2_ClosedOnEveryExit ==
    /\ \A p \in Procs :
          (call[p].pc = "done" /\ call[p].opened) =>
              /\ call[p].id \in io.finTried
              /\ call[p].id \in io.sinkTried
              /\ a_writer = 0 /\ a_filewriter = 0
              /\ io.files = {}
    /\ (\A p \in Procs : call[p].pc = "idle") =>
          a_writer = 0 /\ a_filewriter = 0 /\ io.files = {}

\* an ArchiveDir that failed reading its second file has returned
C2_Witness ==
    \E p \in Procs :
        /\ call[p].op = "dir" /\ call[p].pc = "done" /\ call[p].opened
        /\ call[p].ret = "read"
        /\ Len(target.entries) = 2

\* C3: ArchiveMultiple is deterministic in its mapping: the entries a
\* successful run has written are the entries a run on the same mapping
\* writes for every other order in which the map can be ranged.
C3_Deterministic ==
    \A p \in Procs :
        (call[p].op = "multiple" /\ call[p].pc = "done" /\ call[p].ret = "ok") =>
            \A ks \in RangeOrders(call[p].mapping) :
                LoopOutput(SortStrings(ks), call[p].mapping) = Written(target)

\* a successful run on a mapping that can be ranged in six orders
C3_Witness ==
    \E p \in Procs :
        /\ call[p].op = "multiple" /\ call[p].pc = "done" /\ call[p].ret = "ok"
        /\ Cardinality(RangeOrders(call[p].mapping)) = 6
        /\ Len(target.entries) = 3

\* the regular files below root in tree t
FilesUnder(t, root) == {q \in DOMAIN t : IsPrefix(root, q) /\ t[q] = "file"}

\* C4: a successful ArchiveDir(root) leaves exactly one entry per regular
\* file under root and no other: the entry is named by the file's path
\* relative to root and holds the file's bytes; directories give no entry.
C4_OneEntryPerFile ==
    \A p \in Procs :
        (call[p].op = "dir" /\ call[p].pc = "done" /\ call[p].ret = "ok") =>
            /\ Len(target.entries) = Cardinality(FilesUnder(fs, call[p].path))
            /\ {Written(target)[i] : i \in 1..Len(target.entries)} =
                  {[name |-> Rel(call[p].path, q, sep), content |-> FileBytes(q)] :
                      q \in FilesUnder(fs, call[p].path)}

\* the path handed to ArchiveFile / ArchiveDir does not pass validation
BadPath(c) ==
    \/ c.op = "file" /\ ~IsFile(fs, c.path)
    \/ c.op = "dir" /\ ~IsDir(fs, c.path)

\* C5: ArchiveFile on a path that is absent or a directory, and ArchiveDir
\* on a path that is absent or a file, never invoke open: the call goes from
\* validation straight to its return, the value returned is the validation
\* error, and the target is what it was when the call started.
C5_ValidationBeforeOpen ==
    \A p \in Procs :
        BadPath(call[p]) =>
            /\ ~call[p].openCalled
            /\ call[p].pc \in {"f_valid", "d_valid", "done"}
            /\ call[p].pc = "done" => call[p].ret = "validation"
            /\ target = call[p].tgt0
            /\ a_writer = 0 /\ a_filewriter = 0

\* ArchiveFile on a directory has returned and the old archive is still there
C5_Witness ==
    \E p \in Procs :
        /\ call[p].op = "file" /\ IsDir(fs, call[p].path)
        /\ call[p].pc = "done" /\ call[p].ret = "validation"
        /\ target = OldArchive

\* the operation whose open succeeded last (0: none has)
RECURSIVE MaxOf(_)
MaxOf(S) == IF S = {} THEN 0 ELSE LET x == CHOOSE x \in S : TRUE
                                      m == MaxOf(S \ {x})
                                  IN  IF x > m THEN x ELSE m
LastOpened == MaxOf(io.files \cup io.sinkTried)

C7_WalkErrorReturned ==
    \A p \in Procs :
        (call[p].op = "dir" /\ call[p].pc = "done" /\ call[p].walkErr) =>
            call[p].ret \notin {"ok", "panic"}

\* C8: in ArchiveMultiple the first failure to create or write an entry ends
\* the loop and is the error returned: the names in the container are a
\* prefix of the sorted names, the entries before the failing one are intact,
\* the failing one is the last (created and unwritten) or the next (not
\* created), nothing changes while close runs, and close is attempted.
C8_AbortOnFirstFailure ==
    \A p \in Procs :
        (/\ call[p].op = "multiple"
         /\ call[p].pc \in Closing \cup {"done"}
         /\ call[p].opened
         /\ call[p].ret # "ok") =>
            LET es == target.entries
                sorted == SortedNames(call[p].mapping)
                n == Len(es)
            IN  /\ call[p].ret \in {"create", "write"}
                /\ n <= Len(sorted)
                /\ \A i \in 1..n : es[i].name = sorted[i]
                /\ \A i \in 1..n : es[i].written => es[i].content = call[p].mapping[es[i].name]
                /\ call[p].ret = "create" =>
                      n < Len(sorted) /\ AllWritten(target)
                /\ call[p].ret = "write" =>
                      /\ n >= 1 /\ ~es[n].written
                      /\ \A i \in 1..(n - 1) : es[i].written
                /\ call[p].pc = "done" =>
                      call[p].id \in io.finTried /\ call[p].id \in io.sinkTried

\* the second of three entries could not be written: the first one stays
C8_Witness ==
    \E p \in Procs :
        /\ call[p].op = "multiple" /\ call[p].pc = "done" /\ call[p].ret = "write"
        /\ Cardinality(DOMAIN call[p].mapping) = 3
        /\ Len(target.entries) = 2
        /\ target.entries[1].written

\* C9: errors of finalizing the writer or closing the sink are never
\* surfaced: while close runs the value the operation is about to return does
\* not change, whether or not the finalize or the sink close fails.
C9_CloseErrorsSwallowed ==
    [][\A p \in Procs : call[p].pc \in Closing => call'[p].ret = call[p].ret]_vars

\* an operation returned success although finalizing its container failed
C9_Witness ==
    \E p \in Procs :
        /\ call[p].pc = "done" /\ call[p].ret = "ok" /\ call[p].opened
        /\ call[p].id \in io.finTried
        /\ ~target.finalized

\* C10: a successful ArchiveContent(content, name) leaves a container with
\* exactly one entry, written by this call, whose name is name and whose
\* content is content.
C10_ContentRoundTrip ==
    \A p \in Procs :
        (call[p].op = "content" /\ call[p].pc = "done" /\ call[p].ret = "ok") =>
            /\ Written(target) = <<[name |-> call[p].name, content |-> call[p].content]>>
            /\ AllWritten(target)
            /\ \A i \in 1..Len(target.entries) : target.entries[i].op = call[p].id

\* a two-byte name with a non-empty content, archived over an old archive
C10_Witness ==
    \E p \in Procs :
        /\ call[p].op = "content" /\ call[p].pc = "done" /\ call[p].ret = "ok"
        /\ Len(call[p].name) = 2 /\ call[p].content # <<>>
        /\ call[p].tgt0 = OldArchive
        /\ target.finalized

\* the bytes of a name
BytesOf(name) == {name[i] : i \in 1..Len(name)}

\* C11: a successful ArchiveFile(path) leaves a container with exactly one
\* entry, written by this call, named by the last component of path (no
\* separator in it) and holding the bytes of the file.
C11_FileRoundTrip ==
    \A p \in Procs :
        (call[p].op = "file" /\ call[p].pc = "done" /\ call[p].ret = "ok") =>
            /\ IsFile(fs, call[p].path)
            /\ Written(target) =
                  <<[name |-> call[p].path[Len(call[p].path)],
                     content |-> FileBytes(call[p].path)]>>
            /\ AllWritten(target)
            /\ BytesOf(target.entries[1].name) \cap Separators = {}
            /\ target.entries[1].op = call[p].id

\* the file a/b, two levels down, has been archived as b
C11_Witness ==
    \E p \in Procs :
        /\ call[p].op = "file" /\ call[p].pc = "done" /\ call[p].ret = "ok"
        /\ Len(call[p].path) = 2
        /\ Len(target.entries) = 1 /\ target.entries[1].written
        /\ target.finalized

\* C12: whatever operation runs, no two entries of the container have the
\* same name.
C12_DistinctNames ==
    \A i, j \in 1..Len(target.entries) :
        i # j => target.entries[i].name # target.entries[j].name

\* ArchiveDir has written both files of the tree, a/b and b
C12_Witness ==
    \E p \in Procs :
        /\ call[p].op = "dir" /\ call[p].pc = "done" /\ call[p].ret = "ok"
        /\ Len(target.entries) = 2 /\ AllWritten(target)

\* C13: every entry name ArchiveDir writes is the file's path relative to
\* root with forward slashes between the components, whatever the host's
\* separator.
C13_ForwardSlashNames ==
    \A p \in Procs :
        (call[p].op = "dir" /\ call[p].opened) =>
            \A i \in 1..Len(target.entries) :
                /\ 92 \notin BytesOf(target.entries[i].name)
                /\ \E q \in FilesUnder(fs, call[p].path) :
                      target.entries[i].name = Rel(call[p].path, q, 47)

\* ArchiveMultiple or ArchiveDir has given up on an entry
Aborted(c) ==
    /\ c.op \in {"multiple", "dir"} /\ c.opened
    /\ c.ret \in {"create", "write", "read", "header"}

\* the names the operation is to write
NamesToWrite(c) ==
    IF c.op = "multiple" THEN DOMAIN c.mapping
    ELSE {Rel(c.path, q, sep) : q \in FilesUnder(fs, c.path)}

\* C14 as stated: after ArchiveMultiple or ArchiveDir aborts on an entry the
\* target is never a finalized archive.
C14_NeverFinalizedAfterAbort ==
    \A p \in Procs :
        (Aborted(call[p]) /\ call[p].pc = "done") => ~target.finalized

\* C14 as amended: after ArchiveMultiple or ArchiveDir aborts on an entry,
\* close has attempted to finalize the writer and to close the sink, the
\* error is what is returned, and the target holds entries of this call only,
\* for names of the input, not all of them written: finalized or not.
C14_AbortStillFinalizes ==
    \A p \in Procs :
        (Aborted(call[p]) /\ call[p].pc = "done") =>
            /\ call[p].id \in io.finTried
            /\ call[p].id \in io.sinkTried
            /\ \A i \in 1..Len(target.entries) :
                  /\ target.entries[i].op = call[p].id
                  /\ target.entries[i].name \in NamesToWrite(call[p])
            /\ \/ \E i \in 1..Len(target.entries) : ~target.entries[i].written
               \/ {target.entries[i].name : i \in 1..Len(target.entries)}
                     # NamesToWrite(call[p])

\* ArchiveDir gave up reading its second file and left a finalized archive
\* holding the first
C14_Witness ==
    \E p \in Procs :
        /\ Aborted(call[p]) /\ call[p].pc = "done"
        /\ call[p].op = "dir" /\ call[p].ret = "read"
        /\ target.finalized
        /\ Len(target.entries) = 2 /\ target.entries[1].written

\* C15: the sink is closed only after the attempt to finalize the writer,
\* and it is closed also when that attempt fails: a sink whose close was
\* attempted belongs to a writer whose finalize was attempted, and once an
\* operation that opened has left the finalize step, its sink close follows
\* before it returns.
C15_FinalizeThenSinkClose ==
    /\ io.sinkTried \subseteq io.finTried
    /\ \A p \in Procs :
          /\ (call[p].opened /\ call[p].pc = "close_f") =>
                call[p].id \in io.finTried /\ call[p].id \notin io.sinkTried
          /\ (call[p].opened /\ call[p].pc = "done") =>
                call[p].id \in io.sinkTried

\* finalizing failed on a broken sink and the sink has been closed all the same
C15_Witness ==
    \E p \in Procs :
        /\ call[p].pc = "done" /\ call[p].ret = "write"
        /\ ~target.finalized
        /\ call[p].id \in io.sinkTried /\ io.files = {}

\* C17: ArchiveFile has read the whole source before it invokes open, and
\* when that read fails it returns the read error with open never invoked,
\* the target as it was and no handle held.
C17_ReadBeforeOpen ==
    \A p \in Procs :
        call[p].op = "file" =>
            /\ call[p].openCalled => call[p].content = FileBytes(call[p].path)
            /\ call[p].ret = "read" =>
                  /\ call[p].pc = "done"
                  /\ ~call[p].openCalled
                  /\ target = call[p].tgt0
                  /\ a_writer = 0 /\ a_filewriter = 0 /\ io.files = {}

\* the read of a valid file failed and the old archive is still at the target
C17_Witness ==
    \E p \in Procs :
        /\ call[p].op = "file" /\ call[p].pc = "done" /\ call[p].ret = "read"
        /\ IsFile(fs, call[p].path)
        /\ target = OldArchive

\* every operation has returned and an os.File nothing refers to is open
SinkLeaked ==
    /\ \A p \in Procs : call[p].pc \in {"idle", "done"}
    /\ io.files \ {a_filewriter} # {}

\* an operation is writing an entry it created through a zip.Writer that
\* another operation opened
ForeignWriter ==
    \E p \in Procs :
        /\ call[p].pc \in {"c_write", "f_write", "d_write", "m_write"}
        /\ call[p].w # call[p].id

\* an operation called Create on a.writer after another operation's close
\* had set it to nil
NilWriter == \E p \in Procs : call[p].ret = "panic" /\ ~call[p].walkErr

\* C16: a leaked sink, an entry written through another operation's writer
\* and a call on a nil writer happen only when two calls on the instance
\* have overlapped: never when the calls are serialized.
C16_UnsafeOnlyWhenOverlapped ==
    (SinkLeaked \/ ForeignWriter \/ NilWriter) => io.overlapped

\* both overlapping operations have returned and the sink the first one
\* opened is still open
C16_Witness ==
    /\ SinkLeaked
    /\ io.overlapped
    /\ \A p \in Procs : call[p].pc = "done" /\ call[p].opened
====
